---- MODULE Spec2Model ----
(***************************************************************************)
(* A model of trascrivi.py: the transcription pipeline (input check,       *)
(* backend selection, engine import, model load, transcription, streaming  *)
(* of the segments, the three artifact writers) and its pure formatting    *)
(* functions.                                                              *)
(*                                                                         *)
(* Text is a sequence of one-character strings, so that strip(), the       *)
(* substring test and the line structure of the files are computed.        *)
(*                                                                         *)
(* A time is a Python float of seconds.  The model holds it as a whole     *)
(* number of ticks, with Tick ticks to the second (one tick = 1/100 ms).   *)
(* A decimal time of t tenths of a millisecond is the tick count 10*t when *)
(* the binary float holds it exactly (t a multiple of 1/16 s), and         *)
(* 10*t - 1 or 10*t + 1 otherwise: the float, and the product              *)
(* (seconds % 1) * 1000 computed from it, land just below or just above    *)
(* the decimal value (1.001 % 1 * 1000 is 0.99999999999989).               *)
(***************************************************************************)
EXTENDS Integers, Sequences, FiniteSets, TLC

VARIABLES
    pc,             \* position of the run in trascrivi()
    input_exists,   \* input_path.exists()
    suffix_mp4,     \* input_path.suffix.lower() == ".mp4"
    beam_size,      \* args.beam_size
    probe,          \* what the backend probe met: [raises, types]
    device,         \* "cuda" | "cpu" | "unset"
    compute_type,   \* "float16" | "int8" | "unset"
    calls,          \* the external capabilities the run has reached
    failure,        \* which step ended the run early ("none" if none did)
    err_msg,        \* str(e) of the exception a handler caught
    gen_state,      \* the lazy segment sequence: "none" | "open" | "exhausted" | "failed"
    yielded,        \* the segments the engine has yielded so far, in order
    info,           \* run-level metadata returned by model.transcribe
    segments_list,  \* trascrivi's accumulated seg_data records
    full_text,      \* trascrivi's accumulated trimmed texts
    elapsed,        \* processing_duration, whole seconds
    console,        \* lines printed, in order: records [msg, text]
    txt_file,       \* <stem>_trascrizione.txt: [state, content]
    srt_file,       \* <stem>_trascrizione.srt: [state, content]
    json_file,      \* <stem>_trascrizione.json: [state, doc]
    exit_code,      \* process exit status, -1 while running
    ts_in,          \* input of the formatting functions (ticks)
    ts_out,         \* format_timestamp(ts_in)
    ts_simple_out   \* format_timestamp_simple(ts_in)

vars == <<pc, input_exists, suffix_mp4, beam_size, probe, device, compute_type,
          calls, failure, err_msg, gen_state, yielded, info, segments_list,
          full_text, elapsed, console, txt_file, srt_file, json_file,
          exit_code, ts_in, ts_out, ts_simple_out>>

pipeline_vars == <<pc, input_exists, suffix_mp4, beam_size, probe, device,
                   compute_type, calls, failure, err_msg, gen_state, yielded,
                   info, segments_list, full_text, elapsed, console, txt_file,
                   srt_file, json_file, exit_code>>

\* Ticks per second: one tick is a hundredth of a millisecond.
Tick == 100 * 1000

----------------------------------------------------------------------------
\* Bounds of the model.

\* The engine yields at most MaxSegs segments in a run.
MaxSegs == 3
\* processing_duration ranges over 0..MaxElapsed whole seconds.
MaxElapsed == 1
\* The formatting functions are applied to times of up to MaxHours hours.
MaxHours == 1

----------------------------------------------------------------------------
\* Text helpers: what Python's str(), f"{n:0wd}", str.strip(), `in` and
\* "\n".join do.

DigitChar(d) == <<"0", "1", "2", "3", "4", "5", "6", "7", "8", "9">>[d + 1]

RECURSIVE Digits(_)
\* str(n) for n >= 0
Digits(n) == IF n < 10 THEN <<DigitChar(n)>>
             ELSE Digits(n \div 10) \o <<DigitChar(n % 10)>>

\* f"{n:0wd}": zero-padded on the left to at least w characters
Pad(n, w) == LET d == Digits(n)
                 RECURSIVE fill(_)
                 fill(s) == IF Len(s) >= w THEN s ELSE fill(<<"0">> \o s)
             IN fill(d)

IsSpace(c) == c \in {" ", "\n", "\t", "\r"}

RECURSIVE lstrip(_)
lstrip(s) == IF s # <<>> /\ IsSpace(Head(s)) THEN lstrip(Tail(s)) ELSE s

RECURSIVE rstrip(_)
rstrip(s) == IF s # <<>> /\ IsSpace(s[Len(s)])
             THEN rstrip(SubSeq(s, 1, Len(s) - 1)) ELSE s

\* str.strip(): leading and trailing whitespace removed, inner kept
strip(s) == rstrip(lstrip(s))

\* `needle in hay` on strings
Contains(needle, hay) ==
    \E i \in 1..(Len(hay) - Len(needle) + 1) :
        SubSeq(hay, i, i + Len(needle) - 1) = needle

RECURSIVE Join(_, _)
\* sep.join(parts)
Join(sep, parts) ==
    IF parts = <<>> THEN <<>>
    ELSE IF Len(parts) = 1 THEN parts[1]
    ELSE parts[1] \o sep \o Join(sep, Tail(parts))

----------------------------------------------------------------------------
\* format_timestamp and format_timestamp_simple

ts_hours(seconds) == seconds \div (3600 * Tick)

ts_minutes(seconds) == (seconds % (3600 * Tick)) \div (60 * Tick)

ts_secs(seconds) == (seconds % (60 * Tick)) \div Tick

\* int((seconds % 1) * 1000) rounded where the code truncates
ts_millis_rounded(seconds) == ((seconds % Tick) * 1000 + Tick \div 2) \div Tick

\* int((seconds % 1) * 1000): int() truncates
ts_millis(seconds) == ((seconds % Tick) * 1000) \div Tick

\* "HH:MM:SS,mmm"
format_timestamp(seconds) ==
    Pad(ts_hours(seconds), 2) \o <<":">> \o Pad(ts_minutes(seconds), 2)
        \o <<":">> \o Pad(ts_secs(seconds), 2) \o <<",">>
        \o Pad(ts_millis(seconds), 3)

\* "[MM:SS]"
format_timestamp_simple(seconds) ==
    <<"[">> \o Pad(seconds \div (60 * Tick), 2) \o <<":">>
        \o Pad((seconds % (60 * Tick)) \div Tick, 2) \o <<"]">>

----------------------------------------------------------------------------
\* The environment of a run: what the command line, the file system, the
\* backend probe and the engine can present.

\* --beam_size (default 5)
BeamSizes == {5, 10}

\* ctranslate2.get_supported_compute_types("cuda") returns a collection of
\* type names, or the import or the call raises.
ProbeOutcomes ==
    {[raises |-> TRUE, types |-> {}]}
        \cup {[raises |-> FALSE, types |-> t] : t \in SUBSET {"float16", "int8"}}

NoProbe == [raises |-> FALSE, types |-> {}]

\* str(e) of an engine failure
Messages ==
    { <<"C", "U", "D", "A", " ", "o", "o", "m">>,
      <<"n", "o", " ", "l", "i", "b", "c", "u", "d", "a">>,
      <<"C", "u", "d", "a">>,
      <<"b", "a", "d", " ", "f", "i", "l", "e">> }

\* What the engine may yield next (its id is given when it is yielded):
\* 65.5 s .. 70.0 s (exact floats); 70.9996 s .. 71.001 s (both floats lie
\* above the decimal); 6000 s .. 6000.0004 s (the end lies below), and a
\* text with surrounding whitespace, with an embedded line break, of
\* whitespace only.
SegmentChoices ==
    { [start |-> 6550000, end |-> 7000000,
       text |-> <<" ", "H", "e", "l", "l", "o", " ", "w", "o", "r", "l", "d", " ">>,
       avg_logprob |-> -25, no_speech_prob |-> 3],
      [start |-> 7099961, end |-> 7100101,
       text |-> <<"a", "\n", "b">>,
       avg_logprob |-> -40, no_speech_prob |-> 10],
      [start |-> 600000000, end |-> 600000039,
       text |-> <<" ", "\t">>,
       avg_logprob |-> -90, no_speech_prob |-> 80] }

\* info of model.transcribe: language, language_probability (percent),
\* duration (ticks)
InfoChoices ==
    { [language |-> "it", language_probability |-> 99, duration |-> 7100101],
      [language |-> "en", language_probability |-> 51, duration |-> 600000039] }

NoInfo == [language |-> "", language_probability |-> 0, duration |-> 0]

\* The engine produces segments in non-decreasing start-time order.
MayFollow(c) ==
    IF yielded = <<>> THEN TRUE ELSE yielded[Len(yielded)].start <= c.start

----------------------------------------------------------------------------
\* Console and files

Line(msg, text) == [msg |-> msg, text |-> text]

Say(msgs) == console \o [i \in 1..Len(msgs) |-> Line(msgs[i], <<>>)]

Absent == [state |-> "absent", content |-> <<>>]

AbsentDoc == [state |-> "absent", doc |-> <<>>]

\* "CUDA" in str(e) or "cuda" in str(e)
HasCudaMarker(msg) ==
    Contains(<<"C", "U", "D", "A">>, msg) \/ Contains(<<"c", "u", "d", "a">>, msg)

----------------------------------------------------------------------------
\* check_cuda_available: "True" | "False"; "raise" would be an exception
\* leaving the function.

check_cuda_available_propagates(p) ==
    IF p.raises THEN "raise"
    ELSE IF Cardinality(p.types) > 0 /\ "float16" \in p.types THEN "True"
    ELSE "False"

check_cuda_available(p) ==
    IF p.raises THEN "False"
    ELSE IF Cardinality(p.types) > 0 /\ "float16" \in p.types THEN "True"
    ELSE "False"

----------------------------------------------------------------------------
\* The renderings of the artifact writers

\* one SRT block without its blank separator line
srt_block_no_blank(i, seg) ==
    Digits(i) \o <<"\n">>
        \o format_timestamp(seg.start) \o <<" ", "-", "-", ">", " ">>
        \o format_timestamp(seg.end) \o <<"\n">>
        \o strip(seg.text) \o <<"\n">>

\* one SRT block: index line, timing line, text line, blank line
srt_block(i, seg) ==
    Digits(i) \o <<"\n">>
        \o format_timestamp(seg.start) \o <<" ", "-", "-", ">", " ">>
        \o format_timestamp(seg.end) \o <<"\n">>
        \o strip(seg.text) \o <<"\n", "\n">>

RECURSIVE srt_from(_, _)
srt_from(segments, i) ==
    IF i > Len(segments) THEN <<>>
    ELSE srt_block(i, segments[i]) \o srt_from(segments, i + 1)

\* what write_srt writes for `segments`
srt_content(segments) == srt_from(segments, 1)

RECURSIVE txt_content(_)
\* what write_txt writes for `segments`
txt_content(segments) ==
    IF segments = <<>> THEN <<>>
    ELSE strip(Head(segments).text) \o <<"\n">> \o txt_content(Tail(segments))

\* seg_data of the loop body
seg_data(segment) ==
    [id |-> segment.id, start |-> segment.start, end |-> segment.end,
     text |-> segment.text, avg_logprob |-> segment.avg_logprob,
     no_speech_prob |-> segment.no_speech_prob]

\* the progress line of the loop body
progress_line(segment) ==
    Line("progress",
         format_timestamp_simple(segment.start) \o <<" ">> \o strip(segment.text))

\* json_data
json_data ==
    [file_sorgente |-> "input_path",
     data_trascrizione |-> "now",
     parametri |-> [modello |-> "large-v3", device |-> device,
                    compute_type |-> compute_type, beam_size |-> beam_size,
                    vad_filter |-> TRUE, lingua_impostata |-> "it"],
     info_audio |-> [lingua_rilevata |-> info.language,
                     probabilita_lingua |-> info.language_probability,
                     durata_totale_secondi |-> info.duration],
     statistiche |-> [numero_segmenti |-> Len(segments_list),
                      tempo_elaborazione_secondi |-> elapsed],
     segmenti |-> segments_list,
     testo_completo |-> Join(<<"\n">>, full_text)]

----------------------------------------------------------------------------
\* The run of trascrivi()

env_vars == <<input_exists, suffix_mp4, beam_size>>
backend_vars == <<probe, device, compute_type>>
stream_vars == <<gen_state, yielded, info, segments_list, full_text, elapsed>>
file_vars == <<txt_file, srt_file, json_file>>
ts_vars == <<ts_in, ts_out, ts_simple_out>>

Init ==
    /\ pc = "check_input"
    /\ input_exists \in BOOLEAN
    /\ suffix_mp4 \in BOOLEAN
    /\ beam_size \in BeamSizes
    /\ probe = NoProbe
    /\ device = "unset"
    /\ compute_type = "unset"
    /\ calls = {}
    /\ failure = "none"
    /\ err_msg = <<>>
    /\ gen_state = "none"
    /\ yielded = <<>>
    /\ info = NoInfo
    /\ segments_list = <<>>
    /\ full_text = <<>>
    /\ elapsed = 0
    /\ console = <<>>
    /\ txt_file = Absent
    /\ srt_file = Absent
    /\ json_file = AbsentDoc
    /\ exit_code = -1
    /\ ts_in = 0
    /\ ts_out = <<>>
    /\ ts_simple_out = <<>>

\* the handler's messages, then an exit with status 0
ExitWith_status0(why, msgs) ==
    /\ pc' = "exit"
    /\ exit_code' = 0
    /\ failure' = why
    /\ console' = Say(msgs)

\* sys.exit(1) after the handler's messages
ExitWith(why, msgs) ==
    /\ pc' = "exit"
    /\ exit_code' = 1
    /\ failure' = why
    /\ console' = Say(msgs)

\* An exception no handler catches leaves trascrivi and main: the
\* interpreter prints the traceback and the process ends with status 1.
Uncaught(why) ==
    /\ pc' = "exit"
    /\ exit_code' = 1
    /\ failure' = why
    /\ console' = Say(<<"traceback">>)

\* the missing file reported, the run going on
CheckInputMissing_goes_on ==
    /\ pc = "check_input"
    /\ ~input_exists
    /\ pc' = "probe"
    /\ console' = Say(<<"file_not_found">>)
    /\ UNCHANGED <<env_vars, backend_vars, stream_vars, file_vars, ts_vars,
                   calls, err_msg, failure, exit_code>>

\* if not input_path.exists(): print; sys.exit(1)
CheckInputMissing ==
    /\ pc = "check_input"
    /\ ~input_exists
    /\ ExitWith("file_not_found", <<"file_not_found">>)
    /\ UNCHANGED <<env_vars, backend_vars, stream_vars, file_vars, ts_vars,
                   calls, err_msg>>

\* the file exists; a suffix other than .mp4 only warns
CheckInputOk ==
    /\ pc = "check_input"
    /\ input_exists
    /\ console' = IF suffix_mp4 THEN console ELSE Say(<<"warn_not_mp4">>)
    /\ pc' = "probe"
    /\ UNCHANGED <<env_vars, backend_vars, stream_vars, file_vars, ts_vars,
                   calls, err_msg, failure, exit_code>>

\* use_cuda = check_cuda_available(); device and compute_type chosen
SelectBackend ==
    /\ pc = "probe"
    /\ \E p \in ProbeOutcomes :
         LET use_cuda == check_cuda_available(p) IN
         /\ probe' = p
         /\ calls' = calls \cup {"probe"}
         /\ IF use_cuda = "raise"
            THEN /\ Uncaught("probe")
                 /\ UNCHANGED <<device, compute_type>>
            ELSE /\ device' = IF use_cuda = "True" THEN "cuda" ELSE "cpu"
                 /\ compute_type' = IF use_cuda = "True" THEN "float16" ELSE "int8"
                 /\ console' = Say(<<IF use_cuda = "True" THEN "gpu_float16"
                                     ELSE "warn_cpu">>)
                 /\ pc' = "import"
                 /\ UNCHANGED <<failure, exit_code>>
    /\ UNCHANGED <<env_vars, stream_vars, file_vars, ts_vars, err_msg>>

\* from faster_whisper import WhisperModel
ImportOk ==
    /\ pc = "import"
    /\ calls' = calls \cup {"import"}
    /\ console' = Say(<<"loading_model">>)
    /\ pc' = "load"
    /\ UNCHANGED <<env_vars, backend_vars, stream_vars, file_vars, ts_vars,
                   err_msg, failure, exit_code>>

\* except ImportError: print; sys.exit(1)
ImportFails ==
    /\ pc = "import"
    /\ calls' = calls \cup {"import"}
    /\ ExitWith("import", <<"loading_model", "not_installed">>)
    /\ UNCHANGED <<env_vars, backend_vars, stream_vars, file_vars, ts_vars,
                   err_msg>>

\* model = WhisperModel("large-v3", device=..., compute_type=...)
LoadOk ==
    /\ pc = "load"
    /\ calls' = calls \cup {"load"}
    /\ pc' = "transcribe"
    /\ UNCHANGED <<env_vars, backend_vars, stream_vars, file_vars, ts_vars,
                   err_msg, failure, exit_code, console>>

\* except Exception as e: print; the CUDA hint; sys.exit(1)
LoadFails ==
    /\ pc = "load"
    /\ calls' = calls \cup {"load"}
    /\ \E e \in Messages :
         /\ err_msg' = e
         /\ ExitWith("model_load",
                     IF HasCudaMarker(e) THEN <<"load_error", "cuda_hint">>
                     ELSE <<"load_error">>)
    /\ UNCHANGED <<env_vars, backend_vars, stream_vars, file_vars, ts_vars>>

\* segments_generator, info = model.transcribe(...)
TranscribeOk ==
    /\ pc = "transcribe"
    /\ calls' = calls \cup {"transcribe"}
    /\ console' = Say(<<"model_loaded", "parameters", "rule", "in_progress">>)
    /\ \E i \in InfoChoices : info' = i
    /\ gen_state' = "open"
    /\ pc' = "iterate"
    /\ UNCHANGED <<env_vars, backend_vars, file_vars, ts_vars, err_msg,
                   failure, exit_code, yielded, segments_list, full_text,
                   elapsed>>

\* the transcription failure reported with the CUDA hint of the model load
TranscribeFails_with_hint ==
    /\ pc = "transcribe"
    /\ calls' = calls \cup {"transcribe"}
    /\ \E e \in Messages :
         /\ err_msg' = e
         /\ ExitWith("transcribe",
                     IF HasCudaMarker(e)
                     THEN <<"model_loaded", "parameters", "rule",
                            "transcribe_error", "cuda_hint">>
                     ELSE <<"model_loaded", "parameters", "rule",
                            "transcribe_error">>)
    /\ UNCHANGED <<env_vars, backend_vars, stream_vars, file_vars, ts_vars>>

\* except Exception as e: print; sys.exit(1)
TranscribeFails ==
    /\ pc = "transcribe"
    /\ calls' = calls \cup {"transcribe"}
    /\ \E e \in Messages :
         /\ err_msg' = e
         /\ ExitWith("transcribe",
                     <<"model_loaded", "parameters", "rule", "transcribe_error">>)
    /\ UNCHANGED <<env_vars, backend_vars, stream_vars, file_vars, ts_vars>>

\* the loop body with the trimmed text put at the front of full_text
IterateYield_prepends ==
    /\ pc = "iterate"
    /\ gen_state = "open"
    /\ Len(yielded) < MaxSegs
    /\ \E c \in SegmentChoices :
         /\ MayFollow(c)
         /\ LET segment == [id |-> Len(yielded) + 1] @@ c IN
            /\ yielded' = Append(yielded, segment)
            /\ segments_list' = Append(segments_list, seg_data(segment))
            /\ full_text' = <<strip(segment.text)>> \o full_text
            /\ console' = Append(console, progress_line(segment))
    /\ UNCHANGED <<env_vars, backend_vars, file_vars, ts_vars, pc, calls,
                   err_msg, failure, exit_code, gen_state, info, elapsed>>

\* for segment in segments_generator: one more segment, appended to
\* segments_list and full_text and printed
IterateYield ==
    /\ pc = "iterate"
    /\ gen_state = "open"
    /\ Len(yielded) < MaxSegs
    /\ \E c \in SegmentChoices :
         /\ MayFollow(c)
         /\ LET segment == [id |-> Len(yielded) + 1] @@ c IN
            /\ yielded' = Append(yielded, segment)
            /\ segments_list' = Append(segments_list, seg_data(segment))
            /\ full_text' = Append(full_text, strip(segment.text))
            /\ console' = Append(console, progress_line(segment))
    /\ UNCHANGED <<env_vars, backend_vars, file_vars, ts_vars, pc, calls,
                   err_msg, failure, exit_code, gen_state, info, elapsed>>

\* the sequence ends: the loop is left, processing_duration is taken and
\* the completion banner printed
IterateEnd ==
    /\ pc = "iterate"
    /\ gen_state = "open"
    /\ gen_state' = "exhausted"
    /\ \E d \in 0..MaxElapsed : elapsed' = d
    /\ console' = Say(<<"rule", "completed">>)
    /\ pc' = "write_txt"
    /\ UNCHANGED <<env_vars, backend_vars, file_vars, ts_vars, calls, err_msg,
                   failure, exit_code, yielded, info, segments_list, full_text>>

\* the failure of the sequence taken for its end
IterateFails_swallowed ==
    /\ pc = "iterate"
    /\ gen_state = "open"
    /\ gen_state' = "failed"
    /\ \E d \in 0..MaxElapsed : elapsed' = d
    /\ console' = Say(<<"rule", "completed">>)
    /\ pc' = "write_txt"
    /\ UNCHANGED <<env_vars, backend_vars, file_vars, ts_vars, calls, err_msg,
                   failure, exit_code, yielded, info, segments_list, full_text>>

\* the sequence raises before its end: nothing in trascrivi catches it
IterateFails ==
    /\ pc = "iterate"
    /\ gen_state = "open"
    /\ gen_state' = "failed"
    /\ Uncaught("segments")
    /\ UNCHANGED <<env_vars, backend_vars, file_vars, ts_vars, calls, err_msg,
                   yielded, info, segments_list, full_text, elapsed>>

\* write_txt skipping the file when there is nothing to write
WriteTxtOk_skips_empty ==
    /\ pc = "write_txt"
    /\ txt_file' = IF segments_list = <<>> THEN txt_file
                   ELSE [state |-> "complete", content |-> txt_content(segments_list)]
    /\ pc' = "write_srt"
    /\ UNCHANGED <<env_vars, backend_vars, stream_vars, ts_vars, calls, err_msg,
                   failure, exit_code, console, srt_file, json_file>>

\* write_txt(segments_list, txt_path)
WriteTxtOk ==
    /\ pc = "write_txt"
    /\ txt_file' = [state |-> "complete", content |-> txt_content(segments_list)]
    /\ pc' = "write_srt"
    /\ UNCHANGED <<env_vars, backend_vars, stream_vars, ts_vars, calls, err_msg,
                   failure, exit_code, console, srt_file, json_file>>

\* write_txt failing and the run going on to write_srt
WriteTxtFails_goes_on ==
    /\ pc = "write_txt"
    /\ \/ txt_file' = txt_file
       \/ \E k \in 0..Len(segments_list) :
            txt_file' = [state |-> "partial",
                         content |-> txt_content(SubSeq(segments_list, 1, k))]
    /\ pc' = "write_srt"
    /\ UNCHANGED <<env_vars, backend_vars, stream_vars, ts_vars, calls, err_msg,
                   failure, exit_code, console, srt_file, json_file>>

\* write_txt raises: open() fails and no file is made, or a write fails
\* after k segments; nothing catches it
WriteTxtFails ==
    /\ pc = "write_txt"
    /\ \/ txt_file' = txt_file
       \/ \E k \in 0..Len(segments_list) :
            txt_file' = [state |-> "partial",
                         content |-> txt_content(SubSeq(segments_list, 1, k))]
    /\ Uncaught("write_txt")
    /\ UNCHANGED <<env_vars, backend_vars, stream_vars, ts_vars, calls, err_msg,
                   srt_file, json_file>>

\* write_srt(segments_list, srt_path)
WriteSrtOk ==
    /\ pc = "write_srt"
    /\ srt_file' = [state |-> "complete", content |-> srt_content(segments_list)]
    /\ pc' = "write_json"
    /\ UNCHANGED <<env_vars, backend_vars, stream_vars, ts_vars, calls, err_msg,
                   failure, exit_code, console, txt_file, json_file>>

\* write_srt raises at open() or after k blocks; nothing catches it
WriteSrtFails ==
    /\ pc = "write_srt"
    /\ \/ srt_file' = srt_file
       \/ \E k \in 0..Len(segments_list) :
            srt_file' = [state |-> "partial",
                         content |-> srt_content(SubSeq(segments_list, 1, k))]
    /\ Uncaught("write_srt")
    /\ UNCHANGED <<env_vars, backend_vars, stream_vars, ts_vars, calls, err_msg,
                   txt_file, json_file>>

\* write_json(json_data, json_path)
WriteJsonOk ==
    /\ pc = "write_json"
    /\ json_file' = [state |-> "complete", doc |-> json_data]
    /\ pc' = "summary"
    /\ UNCHANGED <<env_vars, backend_vars, stream_vars, ts_vars, calls, err_msg,
                   failure, exit_code, console, txt_file, srt_file>>

\* write_json raises at open() or while json.dump writes; nothing catches it
WriteJsonFails ==
    /\ pc = "write_json"
    /\ \/ json_file' = json_file
       \/ json_file' = [state |-> "partial", doc |-> <<>>]
    /\ Uncaught("write_json")
    /\ UNCHANGED <<env_vars, backend_vars, stream_vars, ts_vars, calls, err_msg,
                   txt_file, srt_file>>

\* the closing prints; trascrivi and main return, the process ends with 0
Summary ==
    /\ pc = "summary"
    /\ console' = Say(<<"files_saved", "txt_path", "srt_path", "json_path",
                        "audio_summary">>)
    /\ pc' = "exit"
    /\ exit_code' = 0
    /\ UNCHANGED <<env_vars, backend_vars, stream_vars, file_vars, ts_vars,
                   calls, err_msg, failure>>

Next ==
    \/ CheckInputMissing
    \/ CheckInputOk
    \/ SelectBackend
    \/ ImportOk
    \/ ImportFails
    \/ LoadOk
    \/ LoadFails
    \/ TranscribeOk
    \/ TranscribeFails
    \/ IterateYield
    \/ IterateEnd
    \/ IterateFails
    \/ WriteTxtOk
    \/ WriteTxtFails
    \/ WriteSrtOk
    \/ WriteSrtFails
    \/ WriteJsonOk
    \/ WriteJsonFails
    \/ Summary

Spec == Init /\ [][Next]_vars

----------------------------------------------------------------------------
\* The formatting functions on their own, over decimal times of whole
\* tenths of a millisecond.

\* fractional parts, in tenths of a millisecond
Fractions == {0, 4, 5, 10, 4996, 5000, 9990, 9995, 9996, 9999}

\* decimal times, in tenths of a millisecond
DecimalTimes ==
    { ((h * 3600 + m * 60 + sec) * 10000) + f :
        h \in 0..MaxHours, m \in {0, 1, 59}, sec \in {0, 5, 59}, f \in Fractions }

\* the float holding decimal time t: exact, or just below or above
FloatsOf(t) == IF t % 625 = 0 THEN {10 * t} ELSE {10 * t - 1, 10 * t + 1}

TsInputs == UNION { FloatsOf(t) : t \in DecimalTimes }

InitTs ==
    /\ pc = "check_input"
    /\ input_exists = TRUE
    /\ suffix_mp4 = TRUE
    /\ beam_size = 5
    /\ probe = NoProbe
    /\ device = "unset"
    /\ compute_type = "unset"
    /\ calls = {}
    /\ failure = "none"
    /\ err_msg = <<>>
    /\ gen_state = "none"
    /\ yielded = <<>>
    /\ info = NoInfo
    /\ segments_list = <<>>
    /\ full_text = <<>>
    /\ elapsed = 0
    /\ console = <<>>
    /\ txt_file = Absent
    /\ srt_file = Absent
    /\ json_file = AbsentDoc
    /\ exit_code = -1
    /\ ts_in \in TsInputs
    /\ ts_out = <<>>
    /\ ts_simple_out = <<>>

FormatTimestamp ==
    /\ ts_out = <<>>
    /\ ts_out' = format_timestamp(ts_in)
    /\ UNCHANGED <<pipeline_vars, ts_in, ts_simple_out>>

FormatTimestampSimple ==
    /\ ts_simple_out = <<>>
    /\ ts_simple_out' = format_timestamp_simple(ts_in)
    /\ UNCHANGED <<pipeline_vars, ts_in, ts_out>>

NextTs ==
    \/ FormatTimestamp
    \/ FormatTimestampSimple

SpecTs == InitTs /\ [][NextTs]_vars

----------------------------------------------------------------------------
\* Properties

AllAbsent ==
    /\ txt_file.state = "absent"
    /\ srt_file.state = "absent"
    /\ json_file.state = "absent"

AllComplete ==
    /\ txt_file.state = "complete"
    /\ srt_file.state = "complete"
    /\ json_file.state = "complete"

Said(msg) == \E i \in 1..Len(console) : console[i].msg = msg

LastSaid(msg) == console # <<>> /\ console[Len(console)].msg = msg

\* C1: when the input path does not exist the run prints the file-not-found
\* message and ends with exit code 1; no artifact is written and neither
\* the backend probe, the import, the model load nor the transcription call
\* is reached.
C1_MissingInput ==
    ~input_exists =>
        /\ pc \in {"check_input", "exit"}
        /\ calls = {}
        /\ AllAbsent
        /\ pc = "exit" =>
             /\ exit_code = 1
             /\ failure = "file_not_found"
             /\ console = <<Line("file_not_found", <<>>)>>

C1_Witness == ~input_exists /\ pc = "exit" /\ exit_code = 1

\* C2: the writers start only after the segment sequence has been consumed
\* to its end; a sequence that fails after k >= 0 segments leaves no
\* artifact.
C2_NoArtifactUnlessExhausted ==
    /\ (~AllAbsent \/ pc \in {"write_txt", "write_srt", "write_json", "summary"})
           => gen_state = "exhausted"
    /\ gen_state = "failed" => AllAbsent /\ pc = "exit"

C2_Witness ==
    gen_state = "failed" /\ Len(yielded) = 2 /\ pc = "exit" /\ AllAbsent

\* C3 as stated: exit code 1 for a missing file, a failed import, a failed
\* model load or a failed transcription call, exit code 0 for every other
\* run, a failing segment sequence or artifact write included.
C3_ExitCodeAsStated ==
    pc = "exit" =>
        exit_code = IF failure \in {"file_not_found", "import", "model_load",
                                    "transcribe"}
                    THEN 1 ELSE 0

\* C3 amended: the run ends with exit code 0 only when no step failed, and
\* then all three artifacts are complete; every failure, a failing segment
\* sequence or artifact write included, ends it with exit code 1.
C3_ExitCode ==
    /\ pc # "exit" => exit_code = -1 /\ failure = "none"
    /\ pc = "exit" =>
        /\ exit_code = IF failure = "none" THEN 0 ELSE 1
        /\ failure = "none" => AllComplete
        /\ failure \in {"none", "file_not_found", "import", "model_load",
                        "transcribe", "segments", "write_txt", "write_srt",
                        "write_json"}

C3_Witness ==
    /\ pc = "exit"
    /\ failure = "write_srt"
    /\ exit_code = 1

C3_WitnessOk == pc = "exit" /\ failure = "none" /\ exit_code = 0

\* C4: the artifacts are written in the order text, subtitle, metadata;
\* each is complete before the next is started, and a failing write ends
\* the run with a diagnostic and leaves every later artifact absent.
C4_WriteOrder ==
    /\ srt_file.state # "absent" => txt_file.state = "complete"
    /\ json_file.state # "absent" => srt_file.state = "complete"
    /\ pc \in {"write_srt", "write_json", "summary"} => txt_file.state = "complete"
    /\ pc \in {"write_json", "summary"} => srt_file.state = "complete"
    /\ pc = "summary" => json_file.state = "complete"
    /\ txt_file.state = "partial" => failure = "write_txt"
    /\ srt_file.state = "partial" => failure = "write_srt"
    /\ json_file.state = "partial" => failure = "write_json"
    /\ failure = "write_txt" => srt_file.state = "absent" /\ json_file.state = "absent"
    /\ failure = "write_srt" => json_file.state = "absent"
    /\ failure \in {"write_txt", "write_srt", "write_json"} =>
         pc = "exit" /\ exit_code = 1 /\ LastSaid("traceback")

C4_Witness ==
    /\ failure = "write_srt"
    /\ txt_file.state = "complete"
    /\ srt_file.state = "partial"
    /\ srt_file.content # <<>>
    /\ json_file.state = "absent"

\* C5: an empty segment sequence and no failing step: all three artifacts
\* exist, the text and subtitle files are empty, the metadata document has
\* numero_segmenti = 0, no segmenti and an empty testo_completo.
C5_EmptySequence ==
    (pc = "exit" /\ failure = "none" /\ yielded = <<>>) =>
        /\ AllComplete
        /\ txt_file.content = <<>>
        /\ srt_file.content = <<>>
        /\ json_file.doc.statistiche.numero_segmenti = 0
        /\ json_file.doc.segmenti = <<>>
        /\ json_file.doc.testo_completo = <<>>

C5_Witness ==
    pc = "exit" /\ failure = "none" /\ yielded = <<>> /\ gen_state = "exhausted"

\* the pair the selection policy prescribes for what the probe met
PolicyPair ==
    IF ~probe.raises /\ "float16" \in probe.types
    THEN <<"cuda", "float16">> ELSE <<"cpu", "int8">>

\* C6: the probe never lets a failure out; a raising probe leaves the run
\* on (cpu, int8); in every run that reaches the model load the pair is
\* (cuda, float16) exactly when the probe reported float16, else
\* (cpu, int8), and the metadata document records that pair.
C6_BackendSelection ==
    /\ failure # "probe"
    /\ "probe" \in calls => <<device, compute_type>> = PolicyPair
    /\ ("probe" \in calls /\ probe.raises) => <<device, compute_type>> = <<"cpu", "int8">>
    /\ "load" \in calls => "probe" \in calls
    /\ json_file.state = "complete" =>
         /\ json_file.doc.parametri.device = PolicyPair[1]
         /\ json_file.doc.parametri.compute_type = PolicyPair[2]

C6_Witness ==
    /\ probe.raises
    /\ "load" \in calls
    /\ json_file.state = "complete"
    /\ json_file.doc.parametri.device = "cpu"

C6_WitnessCuda ==
    /\ "load" \in calls
    /\ json_file.state = "complete"
    /\ json_file.doc.parametri.device = "cuda"

\* the failure messages that hold "CUDA" or "cuda"
MarkedMessages ==
    { <<"C", "U", "D", "A", " ", "o", "o", "m">>,
      <<"n", "o", " ", "l", "i", "b", "c", "u", "d", "a">> }

\* C7 as stated: a failing model load and a failing transcription call both
\* end the run with a diagnostic, and in both the hint is printed exactly
\* when the message holds the marker.
C7_HintAsStated ==
    (pc = "exit" /\ failure \in {"model_load", "transcribe"}) =>
        /\ exit_code = 1
        /\ Said("cuda_hint") <=> err_msg \in MarkedMessages

\* C7 amended: both failures end the run with their diagnostic and exit
\* code 1; the hint is printed, after the diagnostic, exactly when the
\* model load failed with a message holding the marker, and never for a
\* failing transcription call.
C7_Hint ==
    /\ (pc = "exit" /\ failure = "model_load") =>
         /\ exit_code = 1
         /\ Said("load_error")
         /\ LastSaid("cuda_hint") <=> err_msg \in MarkedMessages
    /\ (pc = "exit" /\ failure = "transcribe") =>
         /\ exit_code = 1
         /\ LastSaid("transcribe_error")
    /\ Said("cuda_hint") <=> (failure = "model_load" /\ err_msg \in MarkedMessages)

C7_Witness ==
    /\ pc = "exit"
    /\ failure = "transcribe"
    /\ err_msg \in MarkedMessages
    /\ ~Said("cuda_hint")

C7_WitnessLoad ==
    pc = "exit" /\ failure = "model_load" /\ LastSaid("cuda_hint")

----------------------------------------------------------------------------
\* Reading the written text back

DigitValue(c) == CHOOSE d \in 0..9 : DigitChar(d) = c

IsDigit(c) == \E d \in 0..9 : DigitChar(d) = c

RECURSIVE Number(_)
\* the number a run of digits denotes
Number(cs) == IF cs = <<>> THEN 0
              ELSE 10 * Number(SubSeq(cs, 1, Len(cs) - 1)) + DigitValue(cs[Len(cs)])

AllDigits(cs) == \A i \in 1..Len(cs) : IsDigit(cs[i])

\* cs is "HH:MM:SS,mmm": two, two, two and three digits and the separators
IsSrtTime(cs) ==
    /\ Len(cs) = 12
    /\ cs[3] = ":" /\ cs[6] = ":" /\ cs[9] = ","
    /\ AllDigits(SubSeq(cs, 1, 2)) /\ AllDigits(SubSeq(cs, 4, 5))
    /\ AllDigits(SubSeq(cs, 7, 8)) /\ AllDigits(SubSeq(cs, 10, 12))

\* the decimal time, in tenths of a millisecond, a float of the model holds
DecimalOf(ticks) == (ticks + 1) \div 10

\* whole seconds of a time
WholeSeconds(ticks) == ticks \div Tick

\* C8 as stated: hours = floor(s/3600), minutes = floor((s mod 3600)/60),
\* secs = floor(s mod 60) and millis = round((s mod 1) * 1000), the
\* fractional part rounded to the nearest millisecond.
C8_MillisRounded ==
    ts_out # <<>> =>
        /\ IsSrtTime(ts_out)
        /\ Number(SubSeq(ts_out, 1, 2)) = WholeSeconds(ts_in) \div 3600
        /\ Number(SubSeq(ts_out, 4, 5)) = (WholeSeconds(ts_in) % 3600) \div 60
        /\ Number(SubSeq(ts_out, 7, 8)) = WholeSeconds(ts_in) % 60
        /\ Number(SubSeq(ts_out, 10, 12)) = ((DecimalOf(ts_in) % 10000) + 5) \div 10

\* C8 amended: hours, minutes and secs are as stated; the millisecond field
\* is the fractional part times 1000 truncated, never rounded up: for a
\* time off the millisecond boundaries it is the floor of the decimal value
\* (x.9996 gives 999, x.0004 gives 000), and on a millisecond boundary it
\* is that millisecond, or the one before when the float lies below the
\* decimal value.
C8_MillisTruncated ==
    ts_out # <<>> =>
        LET t == DecimalOf(ts_in)
            ms == Number(SubSeq(ts_out, 10, 12))
        IN
        /\ IsSrtTime(ts_out)
        /\ Number(SubSeq(ts_out, 1, 2)) = WholeSeconds(ts_in) \div 3600
        /\ Number(SubSeq(ts_out, 4, 5)) = (WholeSeconds(ts_in) % 3600) \div 60
        /\ Number(SubSeq(ts_out, 7, 8)) = WholeSeconds(ts_in) % 60
        /\ ms = (ts_in % Tick) \div 100
        /\ t % 10 # 0 => ms = (t % 10000) \div 10
        /\ t % 10 = 0 => ms \in {(t % 10000) \div 10 - 1, (t % 10000) \div 10}
        /\ ms <= 999

C8_Witness ==
    /\ ts_out # <<>>
    /\ DecimalOf(ts_in) % 10000 = 9996
    /\ Number(SubSeq(ts_out, 10, 12)) = 999

----------------------------------------------------------------------------
\* Lines of a text

\* the positions of the line breaks of cs
BreaksOf(cs) == {i \in 1..Len(cs) : cs[i] = "\n"}

RECURSIVE SplitAt(_, _)
\* cs cut at each line break, the line breaks dropped: one piece more than
\* there are line breaks
SplitAt(cs, from) ==
    LET later == {i \in BreaksOf(cs) : i >= from} IN
    IF later = {} THEN <<SubSeq(cs, from, Len(cs))>>
    ELSE LET b == CHOOSE i \in later : \A j \in later : i <= j
         IN <<SubSeq(cs, from, b - 1)>> \o SplitAt(cs, b + 1)

\* the lines of a file: every line ends with a line break
LinesOf(cs) ==
    LET pieces == SplitAt(cs, 1) IN SubSeq(pieces, 1, Len(pieces) - 1)

\* the text between the first and the last character that is not whitespace
Trimmed(cs) ==
    LET inked == {i \in 1..Len(cs) : ~IsSpace(cs[i])} IN
    IF inked = {} THEN <<>>
    ELSE SubSeq(cs, CHOOSE i \in inked : \A j \in inked : i <= j,
                    CHOOSE i \in inked : \A j \in inked : i >= j)

TimingLine(seg) ==
    format_timestamp(seg.start) \o <<" ", "-", "-", ">", " ">>
        \o format_timestamp(seg.end)

\* the lines block i of the subtitle file is to hold
BlockLines(i, seg) ==
    <<Digits(i), TimingLine(seg)>> \o SplitAt(Trimmed(seg.text), 1) \o << <<>> >>

RECURSIVE BlocksUpTo(_, _)
BlocksUpTo(segments, n) ==
    IF n = 0 THEN <<>>
    ELSE BlocksUpTo(segments, n - 1) \o BlockLines(n, segments[n])

RECURSIVE InnerBreaks(_, _)
\* the line breaks inside the trimmed texts of the first n segments
InnerBreaks(segments, n) ==
    IF n = 0 THEN 0
    ELSE InnerBreaks(segments, n - 1)
             + Cardinality(BreaksOf(Trimmed(segments[n].text)))

\* C9 as stated: for every segment list of length n, texts with an
\* embedded line break included, write_srt produces 4n lines: block i is
\* the index line i, the timing line of segment i, one line holding its
\* trimmed text and one blank line.
C9_FourLinesAsStated ==
    srt_file.state = "complete" =>
        LET lines == LinesOf(srt_file.content)
            n == Len(segments_list)
        IN
        /\ Len(lines) = 4 * n
        /\ \A i \in 1..n :
             /\ lines[4 * i - 3] = Digits(i)
             /\ lines[4 * i - 2] = TimingLine(segments_list[i])
             /\ lines[4 * i - 1] = Trimmed(segments_list[i].text)
             /\ lines[4 * i] = <<>>

\* C9 amended: block i is the index line i, the timing line of segment i,
\* its trimmed text and one blank line, blocks in input order; the trimmed
\* text takes one line more than it has embedded line breaks, so the file
\* has 4n lines plus one per embedded line break, and exactly 4 lines per
\* segment when no trimmed text holds a line break.
C9_SrtBlocks ==
    srt_file.state = "complete" =>
        LET lines == LinesOf(srt_file.content)
            n == Len(segments_list)
        IN
        /\ lines = BlocksUpTo(segments_list, n)
        /\ Len(lines) = 4 * n + InnerBreaks(segments_list, n)
        /\ InnerBreaks(segments_list, n) = 0 =>
             /\ Len(lines) = 4 * n
             /\ \A i \in 1..n :
                  /\ lines[4 * i - 3] = Digits(i)
                  /\ lines[4 * i - 2] = TimingLine(segments_list[i])
                  /\ lines[4 * i - 1] = Trimmed(segments_list[i].text)
                  /\ lines[4 * i] = <<>>

C9_Witness ==
    /\ srt_file.state = "complete"
    /\ Len(segments_list) = 3
    /\ segments_list[1].text # Trimmed(segments_list[1].text)
    /\ InnerBreaks(segments_list, 3) = 0
    /\ Len(LinesOf(srt_file.content)) = 12

----------------------------------------------------------------------------
\* The progress lines among what was printed
ProgressLines == SelectSeq(console, LAMBDA l : l.msg = "progress")

RECURSIVE JoinedUpTo(_, _)
\* the first n texts, a line break between each two
JoinedUpTo(texts, n) ==
    IF n = 0 THEN <<>>
    ELSE IF n = 1 THEN texts[1]
    ELSE JoinedUpTo(texts, n - 1) \o <<"\n">> \o texts[n]

\* C10: after every step the accumulated segment list, the accumulated
\* trimmed texts and the printed progress lines have the length of what
\* the engine has yielded and equal it element by element, in order; a
\* successful run records that count as numero_segmenti, that sequence as
\* segmenti and the trimmed texts joined by line breaks as testo_completo.
C10_Accumulation ==
    LET k == Len(yielded) IN
    /\ Len(segments_list) = k
    /\ Len(full_text) = k
    /\ Len(ProgressLines) = k
    /\ \A i \in 1..k :
         /\ yielded[i].id = i
         /\ segments_list[i] = yielded[i]
         /\ full_text[i] = Trimmed(yielded[i].text)
         /\ ProgressLines[i].text =
                format_timestamp_simple(yielded[i].start) \o <<" ">>
                    \o Trimmed(yielded[i].text)
    /\ (pc = "exit" /\ failure = "none") =>
         /\ json_file.doc.statistiche.numero_segmenti = k
         /\ json_file.doc.segmenti = yielded
         /\ json_file.doc.testo_completo =
                JoinedUpTo([i \in 1..k |-> Trimmed(yielded[i].text)], k)

C10_Witness ==
    /\ pc = "exit"
    /\ failure = "none"
    /\ Len(yielded) = 3
    /\ yielded[1].text # yielded[2].text
    /\ json_file.doc.statistiche.numero_segmenti = 3

====
